---- MODULE Spec2Model ----
(***************************************************************************)
(* Model of ethereum/ecrecover.go: the ecrecover precompile emulator       *)
(* PrecompiledEcRecover and the adapter EcRecover.                         *)
(*                                                                         *)
(* Bytes are integers 0..255.  256-bit integers (r, s, the curve order)    *)
(* are kept as 32-byte big-endian sequences and compared bytewise, which   *)
(* is the numeric order of big.Int.SetBytes values of equal width.         *)
(*                                                                         *)
(* A Go slice is a record [arr, off, len, own]: arr is the whole backing   *)
(* array, off the index of the slice's first element in it, len its        *)
(* length; its capacity is Len(arr) - off.  own says whose memory arr is:  *)
(* "caller" for the buffer handed in by the caller, "local" for anything   *)
(* allocated during the call.                                              *)
(*                                                                         *)
(* The secp256k1 recovery and Keccak-256 are external primitives.  They    *)
(* are modelled by deterministic stand-ins that keep the primitives'       *)
(* interface (argument checks, result lengths, success or failure as a     *)
(* function of the arguments), not their arithmetic.                       *)
(***************************************************************************)
EXTENDS Integers, Sequences, FiniteSets, TLC

VARIABLES pc, fn, input, Hash, VRS, out, err, fault, addr, emuIn, emuErr, mem, calls

vars == <<pc, fn, input, Hash, VRS, out, err, fault, addr, emuIn, emuErr, mem, calls>>

\* Largest spare capacity / over-length (in bytes) of the caller's buffers.
MaxExtra == 2

ecRecoverInputLength == 128

----------------------------------------------------------------------------
(* Byte sequences and slices *)

Rep(n, b) == [i \in 1..n |-> b]

Cap(s) == Len(s.arr) - s.off

\* the bytes a slice shows: s[0:len]
Bytes(s) == SubSeq(s.arr, s.off + 1, s.off + s.len)

\* s[lo:hi]; Go panics unless lo <= hi <= cap(s)
SliceOK(s, lo, hi) == 0 <= lo /\ lo <= hi /\ hi <= Cap(s)

Slice(s, lo, hi) == [arr |-> s.arr, off |-> s.off + lo, len |-> hi - lo, own |-> s.own]

\* a freshly allocated slice holding b (len = cap)
Local(b) == [arr |-> b, off |-> 0, len |-> Len(b), own |-> "local"]

\* append(s, v): writes in place when there is spare capacity, else reallocates
append(s, v) ==
    IF s.len < Cap(s)
    THEN [arr |-> [s.arr EXCEPT ![s.off + s.len + 1] = v],
          off |-> s.off, len |-> s.len + 1, own |-> s.own]
    ELSE Local(Bytes(s) \o <<v>>)

\* RightPadBytes padding on the wrong side
RightPadBytesLeft(slice, l) ==
    IF l <= slice.len
    THEN slice
    ELSE Local(Rep(l - slice.len, 0) \o Bytes(slice))

\* common.RightPadBytes
RightPadBytes(slice, l) ==
    IF l <= slice.len
    THEN slice
    ELSE Local(Bytes(slice) \o Rep(l - slice.len, 0))

\* LeftPadBytes padding on the wrong side
LeftPadBytesRight(b, l) ==
    IF l <= Len(b) THEN b ELSE b \o Rep(l - Len(b), 0)

\* common.LeftPadBytes
LeftPadBytes(b, l) ==
    IF l <= Len(b) THEN b ELSE Rep(l - Len(b), 0) \o b

\* allZero stopping one byte early
allZeroShort(b) == \A i \in 1..(Len(b) - 1) : b[i] = 0

allZero(b) == \A i \in 1..Len(b) : b[i] = 0

----------------------------------------------------------------------------
(* 256-bit integers as 32-byte big-endian sequences *)

\* big.Int.Cmp on two values of the same byte width: decided by the most
\* significant byte in which they differ
Cmp(a, b) ==
    IF a = b THEN 0
    ELSE LET i == CHOOSE k \in 1..Len(a) :
                      a[k] # b[k] /\ \A j \in 1..(k - 1) : a[j] = b[j]
         IN  IF a[i] < b[i] THEN -1 ELSE 1

\* big.Int.Div(x, 2)
Half(b) == [i \in 1..Len(b) |->
              (b[i] \div 2) + (IF i > 1 /\ b[i-1] % 2 = 1 THEN 128 ELSE 0)]

Big0 == Rep(32, 0)
Big1 == Rep(31, 0) \o <<1>>

secp256k1N ==
    Rep(15, 255) \o <<254, 186, 174, 220, 230, 175, 72, 160, 59,
                      191, 210, 94, 140, 208, 54, 65, 65>>

secp256k1halfN == Half(secp256k1N)

\* the validator called with the low-s rule on
homesteadOn == TRUE

\* the homestead argument PrecompiledEcRecover passes to the validator
homestead == FALSE

\* ValidateSignatureValues accepting r equal to the curve order
ValidateSignatureValuesLax(v, r, s, hs) ==
    IF Cmp(r, Big1) < 0 \/ Cmp(s, Big1) < 0 THEN FALSE
    ELSE IF hs /\ Cmp(s, secp256k1halfN) > 0 THEN FALSE
    ELSE Cmp(r, secp256k1N) <= 0 /\ Cmp(s, secp256k1N) < 0 /\ (v = 0 \/ v = 1)

\* crypto.ValidateSignatureValues
ValidateSignatureValues(v, r, s, hs) ==
    IF Cmp(r, Big1) < 0 \/ Cmp(s, Big1) < 0 THEN FALSE
    ELSE IF hs /\ Cmp(s, secp256k1halfN) > 0 THEN FALSE
    ELSE Cmp(r, secp256k1N) < 0 /\ Cmp(s, secp256k1N) < 0 /\ (v = 0 \/ v = 1)

\* v := input[63] - 27, in byte arithmetic
RecId(b) == (b - 27) % 256

----------------------------------------------------------------------------
(* External primitives (stand-ins) *)

RECURSIVE MixRange(_, _, _)
MixRange(b, lo, hi) ==
    IF lo > hi THEN 0
    ELSE IF lo = hi THEN (b[lo] * (lo + 2) + lo) % 251
    ELSE LET mid == (lo + hi) \div 2
         IN  (MixRange(b, lo, mid) * 3 + MixRange(b, mid + 1, hi)) % 251

Mix(b) == MixRange(b, 1, Len(b))

\* crypto.Keccak256: 32 bytes determined by the data
Keccak256(data) ==
    LET m == Mix(data) IN [i \in 1..32 |-> (m * (i + 2) + 13 * i) % 256]

\* crypto.Ecrecover: argument checks of secp256k1.RecoverPubkey, then either a
\* failure or a 65-byte uncompressed public key, determined by (hash, sig)
Ecrecover(hash, sig) ==
    IF Len(hash) # 32 THEN [err |-> "ErrInvalidMsgLen", pub |-> << >>]
    ELSE IF Len(sig) # 65 THEN [err |-> "ErrInvalidSignatureLen", pub |-> << >>]
    ELSE IF sig[65] >= 4 THEN [err |-> "ErrInvalidRecoveryID", pub |-> << >>]
    ELSE LET m == Mix(hash \o sig) IN
         IF m % 4 = 0 THEN [err |-> "ErrRecoverFailed", pub |-> << >>]
         ELSE [err |-> "nil",
               pub |-> <<4>> \o [i \in 1..64 |-> (m + 3 * i + sig[i]) % 256]]

----------------------------------------------------------------------------
(* PrecompiledEcRecover *)

\* a result of PrecompiledEcRecover: output, error, whether it panicked, the
\* calls made to the recovery primitive, the caller's backing array afterwards
Result(o, e, f, cs, m) == [out |-> o, err |-> e, fault |-> f, calls |-> cs, mem |-> m]

\* the primitive's error handed on to the caller
OnRecoverErrorPropagate(e, cs, m) == [out |-> << >>, err |-> e, fault |-> FALSE, calls |-> cs, mem |-> m]

\* lines 61-63: the primitive failed
OnRecoverError(e, cs, m) == Result(<< >>, "nil", FALSE, cs, m)

PrecompiledEcRecover(in) ==
    LET p == RightPadBytes(in, ecRecoverInputLength) IN
    IF ~SliceOK(p, 96, 128) \/ p.len <= 63
    THEN Result(<< >>, "nil", TRUE, << >>, in.arr)
    ELSE
    LET r == Bytes(Slice(p, 64, 96))
        s == Bytes(Slice(p, 96, 128))
        v == RecId(Bytes(p)[64])
    IN
    IF ~allZero(Bytes(Slice(p, 32, 63))) \/ ~ValidateSignatureValues(v, r, s, homestead)
    THEN Result(<< >>, "nil", FALSE, << >>, in.arr)
    ELSE
    LET hash == Bytes(Slice(p, 0, 32))
        sig  == append(Slice(p, 64, 128), v)
        m    == IF sig.own = "caller" THEN sig.arr ELSE in.arr
        rec  == Ecrecover(hash, Bytes(sig))
        cs   == << [hash |-> hash, sig |-> Bytes(sig), err |-> rec.err, pub |-> rec.pub] >>
    IN
    IF rec.err # "nil"
    THEN OnRecoverError(rec.err, cs, m)
    ELSE Result(LeftPadBytes(SubSeq(Keccak256(SubSeq(rec.pub, 2, Len(rec.pub))), 13, 32), 32),
                "nil", FALSE, cs, m)

----------------------------------------------------------------------------
(* EcRecover *)

\* common.BytesToAddress: keeps the last 20 bytes, right-aligned in 20 bytes
BytesToAddress(b) ==
    LET c == IF Len(b) > 20 THEN SubSeq(b, Len(b) - 19, Len(b)) ELSE b
    IN  Rep(20 - Len(c), 0) \o c

ZeroAddress == Rep(20, 0)

\* the request with the V byte one place early
EcRecoverInputShifted(hash, sig) ==
    SubSeq(hash, 1, 32) \o Rep(30, 0) \o <<sig[1], 0>> \o SubSeq(sig, 2, 65)

\* lines 78-84: the 128-byte request built from the hash and the signature
\* (sig is the 65 bytes VRS[0:65])
EcRecoverInput(hash, sig) ==
    SubSeq(hash, 1, 32) \o Rep(31, 0) \o <<sig[1]>> \o SubSeq(sig, 2, 65)

AdapterResult(a, e, f, ei, res) ==
    [addr |-> a, err |-> e, fault |-> f, emuIn |-> ei,
     out |-> res.out, emuErr |-> res.err, calls |-> res.calls]

\* no call of PrecompiledEcRecover was made
NoCall == [out |-> << >>, err |-> "nil", calls |-> << >>]

EcRecover(hash, vrs) ==
    IF vrs.len = 0 \/ ~SliceOK(vrs, 1, 65)
    THEN AdapterResult(ZeroAddress, "nil", TRUE, << >>, NoCall)
    ELSE
    LET buf == EcRecoverInput(hash, Bytes(Slice(vrs, 0, 65)))
        res == PrecompiledEcRecover(Local(buf))
    IN
    IF res.fault
    THEN AdapterResult(ZeroAddress, "nil", TRUE, buf, res)
    ELSE IF res.err # "nil"
    THEN AdapterResult(ZeroAddress, res.err, FALSE, buf, res)
    ELSE IF ~SliceOK(Local(res.out), 12, 32)
    THEN AdapterResult(ZeroAddress, "nil", TRUE, buf, res)
    ELSE AdapterResult(BytesToAddress(SubSeq(res.out, 13, 32)), "nil", FALSE,
                       buf, res)

----------------------------------------------------------------------------
(* Inputs *)

HashVals == { Rep(32, 0), [i \in 1..32 |-> 7 * i] }

\* the padding region input[32:63]: all zero, or one non-zero byte
PadVals == { Rep(31, 0), <<1>> \o Rep(30, 0), Rep(30, 0) \o <<128>> }

VVals == { 0, 26, 27, 28, 29, 255 }

RVals == { Big0, Big1, <<1>> \o Rep(31, 0),
           [secp256k1N EXCEPT ![32] = 64], secp256k1N,
           [secp256k1N EXCEPT ![32] = 66], Rep(32, 255) }

SVals == RVals \cup { secp256k1halfN, [secp256k1halfN EXCEPT ![32] = 161] }

\* bytes of the caller's buffer beyond index 128 / beyond the signature
SpareBytes == Rep(2 * MaxExtra, 255)

InputLens == { 0, 32, 63, 64, 96, 127 } \cup (128 .. 128 + MaxExtra)

VRSLens == { 0, 1, 64 } \cup (65 .. 65 + MaxExtra)

\* a caller's slice of length l and capacity l + x over the bytes of full
CallerSlice(full, l, x) ==
    [arr |-> SubSeq(full, 1, l + x), off |-> 0, len |-> l, own |-> "caller"]

PrecompiledInputs ==
    { CallerSlice(h \o p \o <<v>> \o r \o s \o SpareBytes, l, x) :
        h \in HashVals, p \in PadVals, v \in VVals, r \in RVals, s \in SVals,
        l \in InputLens, x \in 0..MaxExtra }

VRSInputs ==
    { CallerSlice(<<v>> \o r \o s \o SpareBytes, l, x) :
        v \in VVals, r \in RVals, s \in SVals, l \in VRSLens, x \in 0..MaxExtra }

NoSlice == [arr |-> << >>, off |-> 0, len |-> 0, own |-> "caller"]

----------------------------------------------------------------------------
(* The state machine: one call of either function on a chosen input *)

Init ==
    /\ pc = "call"
    /\ fn \in {"PrecompiledEcRecover", "EcRecover"}
    /\ IF fn = "PrecompiledEcRecover"
       THEN input \in PrecompiledInputs /\ Hash = << >> /\ VRS = NoSlice
       ELSE input = NoSlice /\ Hash \in HashVals /\ VRS \in VRSInputs
    /\ out = << >>
    /\ err = "nil"
    /\ fault = FALSE
    /\ addr = << >>
    /\ emuIn = << >>
    /\ emuErr = "nil"
    /\ mem = IF fn = "PrecompiledEcRecover" THEN input.arr ELSE VRS.arr
    /\ calls = << >>

CallPrecompiledEcRecover ==
    /\ pc = "call"
    /\ fn = "PrecompiledEcRecover"
    /\ \E res \in {PrecompiledEcRecover(input)} :
        /\ out' = res.out
        /\ err' = res.err
        /\ fault' = res.fault
        /\ calls' = res.calls
        /\ mem' = res.mem
    /\ pc' = "done"
    /\ UNCHANGED <<fn, input, Hash, VRS, addr, emuIn, emuErr>>

CallEcRecover ==
    /\ pc = "call"
    /\ fn = "EcRecover"
    /\ \E res \in {EcRecover(Hash, VRS)} :
        /\ addr' = res.addr
        /\ err' = res.err
        /\ fault' = res.fault
        /\ emuIn' = res.emuIn
        /\ emuErr' = res.emuErr
        /\ out' = res.out
        /\ calls' = res.calls
    /\ pc' = "done"
    /\ UNCHANGED <<fn, input, Hash, VRS, mem>>

Next == CallPrecompiledEcRecover \/ CallEcRecover

Spec == Init /\ [][Next]_vars

----------------------------------------------------------------------------
(* Properties *)

Done(f) == pc = "done" /\ fn = f

\* the 128-byte normalized view of the caller's input: its first 128 bytes,
\* with zero bytes where the input is shorter
NormalizedView == SubSeq(Bytes(input) \o Rep(128, 0), 1, 128)

ViewHash == SubSeq(NormalizedView, 1, 32)
ViewPad  == SubSeq(NormalizedView, 33, 63)
ViewV    == NormalizedView[64]
ViewR    == SubSeq(NormalizedView, 65, 96)
ViewS    == SubSeq(NormalizedView, 97, 128)

PadZero == \A i \in 1..31 : ViewPad[i] = 0

\* 0 < x < curveOrder
InRange(x) == Cmp(x, Big0) > 0 /\ Cmp(x, secp256k1N) < 0

GatePasses == PadZero /\ ViewV \in {27, 28} /\ InRange(ViewR) /\ InRange(ViewS)

\* the signature the primitive is to be called with: r, s, recovery id
ViewSig == ViewR \o ViewS \o <<ViewV - 27>>

\* the 32-byte output for a recovered public key
AddressOutput(pub) == Rep(12, 0) \o SubSeq(Keccak256(SubSeq(pub, 2, 65)), 13, 32)

\* C1: when the gate passes and the recovery primitive succeeds, the primitive
\* was called once with the normalized hash and r, s, recovery id, and the
\* result is 12 zero bytes and the last 20 bytes of the hash of the public
\* key without its first byte, with a nil error.
C1_RecoveredAddress ==
    (Done("PrecompiledEcRecover") /\ GatePasses /\ Ecrecover(ViewHash, ViewSig).err = "nil")
    => /\ ~fault
       /\ Len(calls) = 1
       /\ calls[1].hash = ViewHash
       /\ calls[1].sig = ViewSig
       /\ Len(out) = 32
       /\ err = "nil"
       /\ out = AddressOutput(Ecrecover(ViewHash, ViewSig).pub)

C1_Witness ==
    /\ Done("PrecompiledEcRecover") /\ GatePasses
    /\ Len(calls) = 1 /\ calls[1].err = "nil" /\ Len(out) = 32

\* C2: the result is 32 bytes or empty and the error is always nil; a failed
\* gate or a failed recovery primitive gives the empty result.
C2_EmptyOrThirtyTwoNilError ==
    Done("PrecompiledEcRecover")
    => /\ ~fault
       /\ Len(out) \in {0, 32}
       /\ err = "nil"
       /\ (~GatePasses \/ Ecrecover(ViewHash, ViewSig).err # "nil") => out = << >>

C2_Witness ==
    /\ Done("PrecompiledEcRecover") /\ GatePasses
    /\ Len(calls) = 1 /\ calls[1].err = "ErrRecoverFailed"
    /\ out = << >> /\ err = "nil"

\* C3: a non-zero byte in the padding region gives the empty result and the
\* recovery primitive is not called, whatever hash, v, r and s are.
C3_PaddingRejected ==
    (Done("PrecompiledEcRecover") /\ ~PadZero) => (out = << >> /\ calls = << >>)

C3_Witness ==
    /\ Done("PrecompiledEcRecover") /\ ~PadZero
    /\ ViewV \in {27, 28} /\ InRange(ViewR) /\ InRange(ViewS)
    /\ Ecrecover(ViewHash, ViewSig).err = "nil"
    /\ out = << >> /\ calls = << >>

\* C4: r = 0, s = 0, r >= curveOrder, s >= curveOrder, or a v byte other
\* than 27 and 28, each on its own gives the empty result.
C4_RangeRejected ==
    (/\ Done("PrecompiledEcRecover")
     /\ \/ ViewR = Big0
        \/ ViewS = Big0
        \/ Cmp(ViewR, secp256k1N) >= 0
        \/ Cmp(ViewS, secp256k1N) >= 0
        \/ ViewV \notin {27, 28})
    => (out = << >> /\ calls = << >>)

C4_Witness ==
    /\ Done("PrecompiledEcRecover") /\ PadZero
    /\ ViewV = 28 /\ ViewR = secp256k1N /\ InRange(ViewS)
    /\ out = << >>

\* C5: a signature with zero padding, v in {27, 28}, r in range and
\* curveOrder/2 < s < curveOrder passes the gate: the primitive is called,
\* and when it succeeds the 32-byte output is returned.
HighS == Cmp(ViewS, secp256k1halfN) > 0 /\ Cmp(ViewS, secp256k1N) < 0

C5_HighSAccepted ==
    (/\ Done("PrecompiledEcRecover")
     /\ PadZero /\ ViewV \in {27, 28} /\ InRange(ViewR) /\ HighS)
    => /\ Len(calls) = 1
       /\ calls[1].err = "nil" => Len(out) = 32

C5_Witness ==
    /\ Done("PrecompiledEcRecover")
    /\ PadZero /\ ViewV \in {27, 28} /\ InRange(ViewR) /\ HighS
    /\ Len(calls) = 1 /\ calls[1].err = "nil" /\ Len(out) = 32

\* C6: the result is that of the 128-byte normalized view (short inputs as
\* if zero-padded, long inputs as their first 128 bytes), no length faults,
\* and an input of at most 64 bytes gives the empty result.
C6_NormalizedViewOnly ==
    Done("PrecompiledEcRecover")
    => /\ ~fault
       /\ out = PrecompiledEcRecover(Local(NormalizedView)).out
       /\ err = PrecompiledEcRecover(Local(NormalizedView)).err
       /\ input.len <= 64 => out = << >>

C6_Witness ==
    /\ Done("PrecompiledEcRecover")
    /\ input.len < 128 /\ Len(out) = 32

\* C7: after a call every byte of the caller's backing buffer is unchanged.
C7_CallerBufferUnchanged ==
    Done("PrecompiledEcRecover") => mem = input.arr

\* C8: EcRecover with a 65-byte signature never faults, and returns an
\* error when the emulator's result is empty.
C8_EmptyResultIsError ==
    (Done("EcRecover") /\ VRS.len = 65)
    => /\ ~fault
       /\ out = << >> => err # "nil"

\* C9: EcRecover with a signature whose length is not 65 returns an error
\* and does not fault.
C9_WrongLengthIsError ==
    (Done("EcRecover") /\ VRS.len # 65) => (~fault /\ err # "nil")

\* C10: with a 65-byte signature EcRecover hands the emulator
\* hash, 31 zero bytes, sig[0], sig[1:65]; the padding region is zero; a
\* 32-byte output gives its bytes [12:32] as the address with a nil error,
\* and an emulator error is returned as it is.
C10_AdapterLayout ==
    (Done("EcRecover") /\ VRS.len = 65)
    => /\ emuIn = Hash \o Rep(31, 0) \o <<Bytes(VRS)[1]>> \o SubSeq(Bytes(VRS), 2, 65)
       /\ Len(emuIn) = 128
       /\ \A i \in 33..63 : emuIn[i] = 0
       /\ Len(out) = 32 => (~fault /\ err = "nil" /\ addr = SubSeq(out, 13, 32))
       /\ Len(out) = 32 <=> Len(calls) = 1 /\ calls[1].err = "nil"
       /\ emuErr # "nil" => (err = emuErr /\ ~fault)

C10_Witness ==
    /\ Done("EcRecover") /\ VRS.len = 65
    /\ Len(out) = 32 /\ ~fault /\ err = "nil" /\ addr = SubSeq(out, 13, 32)

====
